---- MODULE Spec2Model ----
(***************************************************************************)
(* Session-log parsing core of agentreflect (src/agentreflect/parser.py).  *)
(*                                                                         *)
(* Text model.  A Python str is a sequence of atoms.  An atom is a short   *)
(* run of characters that the scanners of parser.py never look inside:     *)
(* one whitespace character, one punctuation token, one word, or the text  *)
(* of one JSON object literal.  A longer word is written as several atoms  *)
(* ("Users" is <<"User", "s">>), so prefix matches of the regular          *)
(* expressions are matches of leading atoms.  str.lower(), str.strip(),    *)
(* str.split(), the `in` substring test, json.loads and the four regular   *)
(* expressions are operators on atom sequences.                            *)
(***************************************************************************)
EXTENDS Integers, Sequences, FiniteSets, TLC

VARIABLES content, source, raw, op, ret

\* Session.stats(): the statistics computed last.
VARIABLES statistics

\* parse_file: the path given to it and the file system it reads.
VARIABLES filepath, files

\* A batch of parse_session calls in progress, one record of locals each.
VARIABLES calls

\* storage.py: the reflections file and the save_reflection calls in
\* progress.
VARIABLES stored, saves

\* What the calls on a content string leave alone.
outside == <<statistics, filepath, files, calls, stored, saves>>

vars == <<content, source, raw, op, ret, outside>>

\* ------------------------------------------------------------------------
\* Bounds of the explored inputs
\* ------------------------------------------------------------------------
MaxPad == 1
MaxJsonlLines == 6
MaxNarrLines == 3
MaxMarkerLines == 2
MaxElems == 2
MaxLabelLines == 2
MaxPrefixLines == 2
MaxMixedLines == 4
MaxFileLines == 3
MaxCalls == 2
MaxSaves == 2

\* ------------------------------------------------------------------------
\* Program constants
\* ------------------------------------------------------------------------
JsonlSample == 5
JsonlThreshold == 2
MetaScore == 2
NanobotThreshold == 3

\* ------------------------------------------------------------------------
\* str primitives
\* ------------------------------------------------------------------------
Whitespace == {" ", "\n"}

Min(a, b) == IF a < b THEN a ELSE b

\* str.lower() on one atom: the atoms that contain an upper-case letter.
LowerAtom(a) ==
    CASE a = "User" -> "user"
      [] a = "USER" -> "user"
      [] a = "Human" -> "human"
      [] a = "HUMAN" -> "human"
      [] a = "Customer" -> "customer"
      [] a = "Assistant" -> "assistant"
      [] a = "AI" -> "ai"
      [] a = "Ai" -> "ai"
      [] a = "Bot" -> "bot"
      [] a = "Agent" -> "agent"
      [] a = "System" -> "system"
      [] a = "Tool" -> "tool"
      [] a = "TOOL" -> "tool"
      [] a = "Function" -> "function"
      [] a = "Developer" -> "developer"
      [] a = "Do" -> "do"
      [] a = "X" -> "x"
      [] a = "Done" -> "done"
      [] OTHER -> a

lower(s) == [i \in 1..Len(s) |-> LowerAtom(s[i])]

\* Index of the first / last atom that is not whitespace (0 when none).
FirstNonWs(s) ==
    IF \E i \in 1..Len(s) : s[i] \notin Whitespace
    THEN CHOOSE i \in 1..Len(s) :
            /\ s[i] \notin Whitespace
            /\ \A j \in 1..(i - 1) : s[j] \in Whitespace
    ELSE 0

LastNonWs(s) ==
    IF \E i \in 1..Len(s) : s[i] \notin Whitespace
    THEN CHOOSE i \in 1..Len(s) :
            /\ s[i] \notin Whitespace
            /\ \A j \in (i + 1)..Len(s) : s[j] \in Whitespace
    ELSE 0

strip(s) ==
    LET first == FirstNonWs(s) IN
    IF first = 0 THEN <<>>
    ELSE SubSeq(s, first, LastNonWs(s))

\* s[i:] of Python, with i a 0-based offset.
From(s, i) == SubSeq(s, i + 1, Len(s))

\* `pat in s`
Contains(s, pat) ==
    \E i \in 1..(Len(s) - Len(pat) + 1) : SubSeq(s, i, i + Len(pat) - 1) = pat

\* Position of the first sep at or after position i (0 when none).
RECURSIVE FindAtom(_, _, _)
FindAtom(s, sep, i) ==
    IF i > Len(s) THEN 0
    ELSE IF s[i] = sep THEN i
    ELSE FindAtom(s, sep, i + 1)

\* str.split(sep, maxsplit); maxsplit = -1 splits everywhere.
RECURSIVE split(_, _, _)
split(s, sep, maxsplit) ==
    LET p == FindAtom(s, sep, 1) IN
    IF maxsplit = 0 \/ p = 0 THEN <<s>>
    ELSE <<SubSeq(s, 1, p - 1)>>
         \o split(From(s, p), sep,
                  IF maxsplit < 0 THEN maxsplit ELSE maxsplit - 1)

\* sep.join(parts)
RECURSIVE join(_, _)
join(sep, parts) ==
    IF Len(parts) = 0 THEN <<>>
    ELSE IF Len(parts) = 1 THEN parts[1]
    ELSE parts[1] \o sep \o join(sep, Tail(parts))

\* ------------------------------------------------------------------------
\* Role normalization
\* ------------------------------------------------------------------------
_ROLE_MAP ==
    (<<"user">> :> <<"user">>) @@
    (<<"human">> :> <<"user">>) @@
    (<<"customer">> :> <<"user">>) @@
    (<<"assistant">> :> <<"assistant">>) @@
    (<<"ai">> :> <<"assistant">>) @@
    (<<"bot">> :> <<"assistant">>) @@
    (<<"agent">> :> <<"assistant">>) @@
    (<<"system">> :> <<"system">>) @@
    (<<"tool">> :> <<"tool">>) @@
    (<<"function">> :> <<"tool">>)

\* _normalize_role returning an unmapped label as it was given.
_normalize_role_keep_raw(r) ==
    LET key == strip(lower(r)) IN
    IF key \in DOMAIN _ROLE_MAP THEN _ROLE_MAP[key] ELSE r

\* _normalize_role looking the label up before trimming it.
_normalize_role_lookup_untrimmed(r) ==
    IF lower(r) \in DOMAIN _ROLE_MAP THEN _ROLE_MAP[lower(r)] ELSE strip(lower(r))

_normalize_role(r) ==
    LET key == strip(lower(r)) IN
    IF key \in DOMAIN _ROLE_MAP THEN _ROLE_MAP[key] ELSE key

\* ------------------------------------------------------------------------
\* JSON values and json.loads
\* ------------------------------------------------------------------------
\* A decoded JSON value is [t |-> type, v |-> payload]: a str carries its
\* atoms, a num its integer, a list the sequence of its items, a dict the
\* function from its keys to their values.
JStr(s) == [t |-> "str", v |-> s]

JNum(n) == [t |-> "num", v |-> n]

JNull == [t |-> "null", v |-> 0]

JList(items) == [t |-> "list", v |-> items]

JDict(d) == [t |-> "dict", v |-> d]

\* The JSON object literals that occur in the explored inputs.  Each is one
\* atom of the text; ObjOf is what json.loads decodes it to.
ObjUser == "{\"role\":\"user\",\"content\":\"hi\"}"

ObjBot == "{\"role\":\" Bot\",\"content\":\"hello\"}"

ObjDev == "{\"role\":\"Developer\",\"content\":\"\"}"

ObjNoRole == "{\"content\":\"x\",\"id\":1}"

ObjIdOnly == "{\"id\":1}"

ObjNullRole == "{\"role\":null,\"content\":\"x\"}"

ObjNumRole == "{\"role\":7,\"content\":\"x\"}"

ObjParts == "{\"role\":\"user\",\"content\":[{\"type\":\"text\",\"text\":\"hi\"},\"x\",{\"type\":\"image\"}]}"

ObjBadPart == "{\"role\":\"user\",\"content\":[{\"type\":\"text\",\"text\":5}]}"

ObjNumContent == "{\"role\":\"tool\",\"content\":5,\"id\":1}"

ObjAtoms ==
    {ObjUser, ObjBot, ObjDev, ObjNoRole, ObjIdOnly, ObjNullRole, ObjNumRole,
     ObjParts, ObjBadPart, ObjNumContent}

ObjOf(a) ==
    CASE a = ObjUser ->
            JDict(("role" :> JStr(<<"user">>)) @@ ("content" :> JStr(<<"hi">>)))
      [] a = ObjBot ->
            JDict(("role" :> JStr(<<" ", "Bot">>)) @@ ("content" :> JStr(<<"hello">>)))
      [] a = ObjDev ->
            JDict(("role" :> JStr(<<"Developer">>)) @@ ("content" :> JStr(<<>>)))
      [] a = ObjNoRole ->
            JDict(("content" :> JStr(<<"x">>)) @@ ("id" :> JNum(1)))
      [] a = ObjIdOnly ->
            JDict(("id" :> JNum(1)))
      [] a = ObjNullRole ->
            JDict(("role" :> JNull) @@ ("content" :> JStr(<<"x">>)))
      [] a = ObjNumRole ->
            JDict(("role" :> JNum(7)) @@ ("content" :> JStr(<<"x">>)))
      [] a = ObjParts ->
            JDict(("role" :> JStr(<<"user">>)) @@
                  ("content" :> JList(<<
                      JDict(("type" :> JStr(<<"text">>)) @@ ("text" :> JStr(<<"hi">>))),
                      JStr(<<"x">>),
                      JDict(("type" :> JStr(<<"image">>)))>>)))
      [] a = ObjBadPart ->
            JDict(("role" :> JStr(<<"user">>)) @@
                  ("content" :> JList(<<
                      JDict(("type" :> JStr(<<"text">>)) @@ ("text" :> JNum(5)))>>)))
      [] a = ObjNumContent ->
            JDict(("role" :> JStr(<<"tool">>)) @@ ("content" :> JNum(5)) @@
                  ("id" :> JNum(1)))

\* Scalar literals of the explored inputs.
ScalarAtoms == {"1", "42", "null"}

ScalarOf(a) == IF a = "1" THEN JNum(1) ELSE IF a = "42" THEN JNum(42) ELSE JNull

JFail == [ok |-> FALSE, val |-> JNull, next |-> 0]

RECURSIVE SkipWs(_, _)
SkipWs(s, i) ==
    IF i <= Len(s) /\ s[i] \in Whitespace THEN SkipWs(s, i + 1) ELSE i

\* The JSON grammar over atoms:
\*   value := object | scalar | '"' atoms '"' | '[' elements ']'.
\* ParseValue reads the value that starts at position i; ParseElems reads
\* the rest of an array whose items so far are acc.
RECURSIVE ParseValue(_, _)
RECURSIVE ParseElems(_, _, _)
ParseValue(s, i) ==
    IF i > Len(s) THEN JFail
    ELSE IF s[i] \in ObjAtoms THEN [ok |-> TRUE, val |-> ObjOf(s[i]), next |-> i + 1]
    ELSE IF s[i] \in ScalarAtoms THEN [ok |-> TRUE, val |-> ScalarOf(s[i]), next |-> i + 1]
    ELSE IF s[i] = "\"" THEN
        LET q == FindAtom(s, "\"", i + 1) IN
        IF q = 0 \/ (\E k \in (i + 1)..(q - 1) : s[k] = "\n" \/ s[k] \in ObjAtoms)
        THEN JFail
        ELSE [ok |-> TRUE, val |-> JStr(SubSeq(s, i + 1, q - 1)), next |-> q + 1]
    ELSE IF s[i] = "[" THEN
        LET j == SkipWs(s, i + 1) IN
        IF j <= Len(s) /\ s[j] = "]"
        THEN [ok |-> TRUE, val |-> JList(<<>>), next |-> j + 1]
        ELSE ParseElems(s, j, <<>>)
    ELSE JFail

ParseElems(s, i, acc) ==
    LET item == ParseValue(s, i) IN
    IF ~item.ok THEN JFail
    ELSE LET j == SkipWs(s, item.next) IN
         IF j > Len(s) THEN JFail
         ELSE IF s[j] = "]"
              THEN [ok |-> TRUE, val |-> JList(Append(acc, item.val)), next |-> j + 1]
         ELSE IF s[j] = ","
              THEN ParseElems(s, SkipWs(s, j + 1), Append(acc, item.val))
         ELSE JFail

\* json.loads(s): ok = FALSE stands for json.JSONDecodeError.
json_loads(s) ==
    LET r == ParseValue(s, SkipWs(s, 1)) IN
    IF r.ok /\ SkipWs(s, r.next) > Len(s)
    THEN [ok |-> TRUE, val |-> r.val]
    ELSE [ok |-> FALSE, val |-> JNull]

\* ------------------------------------------------------------------------
\* Format detection
\* ------------------------------------------------------------------------
\* re.search(r"^(session_id|agent|model|timestamp)\s*[:=]", s, re.MULTILINE)
MetaKeys == {"session_id", "agent", "model", "timestamp"}

LineStart(s, i) == i = 1 \/ (i > 1 /\ i <= Len(s) + 1 /\ s[i - 1] = "\n")

MetaMatchAt(s, i) ==
    /\ i <= Len(s)
    /\ LineStart(s, i)
    /\ s[i] \in MetaKeys
    /\ SkipWs(s, i + 1) <= Len(s)
    /\ s[SkipWs(s, i + 1)] \in {":", "="}

\* _is_nanobot_format with a metadata line worth 1 point.
_is_nanobot_format_meta_one(s) ==
    LET markers == <<(<<"##", " ", "Human">>), (<<"##", " ", "Assistant">>), (<<"---">>)>>
        score == Cardinality({k \in 1..Len(markers) : Contains(s, markers[k])})
        meta == IF \E i \in 1..Len(s) : MetaMatchAt(s, i) THEN 1 ELSE 0
    IN  score + meta >= NanobotThreshold

_is_nanobot_format(s) ==
    LET markers == <<(<<"##", " ", "Human">>), (<<"##", " ", "Assistant">>), (<<"---">>)>>
        score == Cardinality({k \in 1..Len(markers) : Contains(s, markers[k])})
        meta == IF \E i \in 1..Len(s) : MetaMatchAt(s, i) THEN MetaScore ELSE 0
    IN  score + meta >= NanobotThreshold

\* The loop of lines 121-130: jsonl_count after the inspected lines, from
\* line k on, cnt counted so far; a JSONDecodeError leaves the loop.
RECURSIVE JsonlCount(_, _, _)
JsonlCount(lines, k, cnt) ==
    IF k > Len(lines) THEN cnt
    ELSE LET line == strip(lines[k])
             obj == json_loads(line)
         IN  IF line = <<>> THEN JsonlCount(lines, k + 1, cnt)
             ELSE IF ~obj.ok THEN cnt
             ELSE IF obj.val.t = "dict" THEN JsonlCount(lines, k + 1, cnt + 1)
             ELSE JsonlCount(lines, k + 1, cnt)

\* The JSON-array test accepting any non-empty array.
LooksJsonArray_any_first(stripped) ==
    /\ Len(stripped) > 0
    /\ stripped[1] = "["
    /\ LET data == json_loads(stripped) IN
       /\ data.ok
       /\ data.val.t = "list"
       /\ Len(data.val.v) > 0

\* The JSON-array test of lines 108-116.
LooksJsonArray(stripped) ==
    /\ Len(stripped) > 0
    /\ stripped[1] = "["
    /\ LET data == json_loads(stripped) IN
       /\ data.ok
       /\ data.val.t = "list"
       /\ Len(data.val.v) > 0
       /\ LET first == data.val.v[1] IN
          /\ first.t = "dict"
          /\ ("role" \in DOMAIN first.v \/ "content" \in DOMAIN first.v)

\* The loop with a blank line ending it (blankStops) or with a line that
\* is not JSON skipped instead of ending it (skipBad).
RECURSIVE JsonlCountVariant(_, _, _, _, _)
JsonlCountVariant(lines, k, cnt, blankStops, skipBad) ==
    IF k > Len(lines) THEN cnt
    ELSE LET line == strip(lines[k])
             obj == json_loads(line)
         IN  IF line = <<>>
             THEN IF blankStops THEN cnt
                  ELSE JsonlCountVariant(lines, k + 1, cnt, blankStops, skipBad)
             ELSE IF ~obj.ok
             THEN IF skipBad
                  THEN JsonlCountVariant(lines, k + 1, cnt, blankStops, skipBad)
                  ELSE cnt
             ELSE JsonlCountVariant(lines, k + 1,
                                    IF obj.val.t = "dict" THEN cnt + 1 ELSE cnt,
                                    blankStops, skipBad)

LooksJsonl_blank_stops(stripped) ==
    LET lines == split(stripped, "\n", JsonlSample) IN
    JsonlCountVariant(SubSeq(lines, 1, Min(JsonlSample, Len(lines))), 1, 0, TRUE, FALSE)
        >= JsonlThreshold

LooksJsonl_skip_bad(stripped) ==
    LET lines == split(stripped, "\n", JsonlSample) IN
    JsonlCountVariant(SubSeq(lines, 1, Min(JsonlSample, Len(lines))), 1, 0, FALSE, TRUE)
        >= JsonlThreshold

\* The JSONL test of lines 119-132.
LooksJsonl(stripped) ==
    LET lines == split(stripped, "\n", JsonlSample) IN
    JsonlCount(SubSeq(lines, 1, Min(JsonlSample, Len(lines))), 1, 0) >= JsonlThreshold

\* detect_format with the marker check ahead of the JSONL check.
detect_format_marker_first(c) ==
    LET stripped == strip(c) IN
    IF LooksJsonArray(stripped) THEN "json"
    ELSE IF _is_nanobot_format(stripped) THEN "nanobot"
    ELSE IF LooksJsonl(stripped) THEN "jsonl"
    ELSE "text"

detect_format(c) ==
    LET stripped == strip(c) IN
    IF LooksJsonArray(stripped) THEN "json"
    ELSE IF LooksJsonl(stripped) THEN "jsonl"
    ELSE IF _is_nanobot_format(stripped) THEN "nanobot"
    ELSE "text"

\* ------------------------------------------------------------------------
\* Results: a returned message list or a raised exception
\* ------------------------------------------------------------------------
EmptyDict == [k \in {} |-> JNull]

Message(role, body, metadata) ==
    [role |-> role, content |-> body, metadata |-> metadata]

\* exc = "none": the call returned messages.  Otherwise exc is the class of
\* the raised exception, text the fixed part of its message, num the item
\* index or line number it cites (-1 when none), fmt the format tag it cites.
Return(msgs) ==
    [exc |-> "none", text |-> "", num |-> -1, fmt |-> "", messages |-> msgs]

Raise(exc, text, num, fmt) ==
    [exc |-> exc, text |-> text, num |-> num, fmt |-> fmt, messages |-> <<>>]

\* str(x) of a decoded JSON value that is not a str.
NumAtom(n) == IF n = 1 THEN "1" ELSE IF n = 5 THEN "5" ELSE IF n = 42 THEN "42" ELSE "7"

PyStr(x) ==
    CASE x.t = "num" -> <<NumAtom(x.v)>>
      [] x.t = "null" -> <<"None">>
      [] x.t = "list" -> <<"repr(list)">>
      [] x.t = "dict" -> <<"repr(dict)">>
      [] OTHER -> x.v

\* d.get(key, default)
Get(d, key, default) == IF key \in DOMAIN d THEN d[key] ELSE default

\* {k: v for k, v in item.items() if k not in ("role", "content")}
Metadata(d) == [k \in (DOMAIN d) \ {"role", "content"} |-> d[k]]

\* ------------------------------------------------------------------------
\* parse_json
\* ------------------------------------------------------------------------
\* Lines 180-185: the text collected from the parts of a list content.
RECURSIVE TextParts(_)
TextParts(parts) ==
    IF Len(parts) = 0 THEN <<>>
    ELSE LET part == Head(parts) IN
         (IF part.t = "dict"
             /\ "type" \in DOMAIN part.v
             /\ part.v["type"].t = "str"
             /\ part.v["type"].v = <<"text">>
          THEN <<Get(part.v, "text", JStr(<<>>))>>
          ELSE IF part.t = "str" THEN <<part>>
          ELSE <<>>)
         \o TextParts(Tail(parts))

StrsOf(vals) == [k \in 1..Len(vals) |-> vals[k].v]

\* Lines 175-191 for one mapping: the message, or the exception raised by
\* raw.lower() on a role that is not a str ("AttributeError") or by
\* "\n".join on a part text that is not a str ("TypeError").
JsonItemMessage(d) ==
    LET role == Get(d, "role", JStr(<<"unknown">>))
        c == Get(d, "content", JStr(<<>>))
        text_parts == TextParts(c.v)
    IN  IF role.t # "str" THEN Raise("AttributeError", "lower", -1, "")
        ELSE IF c.t = "list" THEN
            IF \E k \in 1..Len(text_parts) : text_parts[k].t # "str"
            THEN Raise("TypeError", "join", -1, "")
            ELSE Return(<<Message(_normalize_role(role.v),
                                  join(<<"\n">>, StrsOf(text_parts)),
                                  Metadata(d))>>)
        ELSE Return(<<Message(_normalize_role(role.v), PyStr(c), Metadata(d))>>)

\* The loop of lines 171-191 from item i (0-based) on.
RECURSIVE JsonItems(_, _, _)
JsonItems(data, i, acc) ==
    IF i >= Len(data) THEN Return(acc)
    ELSE IF data[i + 1].t # "dict"
         THEN Raise("ParseError", "Item is not a JSON object", i, "")
    ELSE LET m == JsonItemMessage(data[i + 1].v) IN
         IF m.exc # "none" THEN m
         ELSE JsonItems(data, i + 1, acc \o m.messages)

\* parse_json dropping the elements with empty content, as the narrative
\* parsers do.
HasContent(m) == m.content # <<>>

parse_json_drop_empty(c) ==
    LET data == json_loads(strip(c)) IN
    IF ~data.ok THEN Raise("ParseError", "Invalid JSON", -1, "")
    ELSE IF data.val.t # "list"
         THEN Raise("ParseError", "JSON content is not an array", -1, "")
    ELSE LET r == JsonItems(data.val.v, 0, <<>>) IN
         IF r.exc # "none" THEN r ELSE Return(SelectSeq(r.messages, HasContent))

parse_json(c) ==
    LET data == json_loads(strip(c)) IN
    IF ~data.ok THEN Raise("ParseError", "Invalid JSON", -1, "")
    ELSE IF data.val.t # "list"
         THEN Raise("ParseError", "JSON content is not an array", -1, "")
    ELSE JsonItems(data.val.v, 0, <<>>)

\* ------------------------------------------------------------------------
\* parse_jsonl
\* ------------------------------------------------------------------------
\* Lines 211-216 for one mapping.
JsonlLineMessage(d) ==
    LET role == Get(d, "role", JStr(<<"unknown">>))
        c == Get(d, "content", JStr(<<>>))
    IN  IF role.t # "str" THEN Raise("AttributeError", "lower", -1, "")
        ELSE Return(<<Message(_normalize_role(role.v), PyStr(c), Metadata(d))>>)

\* The loop of lines 199-216 from line lineno (1-based) on.
RECURSIVE JsonlLines(_, _, _)
JsonlLines(lines, lineno, acc) ==
    IF lineno > Len(lines) THEN Return(acc)
    ELSE LET line == strip(lines[lineno])
             obj == json_loads(line)
         IN  IF line = <<>> THEN JsonlLines(lines, lineno + 1, acc)
             ELSE IF ~obj.ok
                  THEN Raise("ParseError", "Invalid JSON on line", lineno, "")
             ELSE IF obj.val.t # "dict"
                  THEN JsonlLines(lines, lineno + 1, acc)
             ELSE LET m == JsonlLineMessage(obj.val.v) IN
                  IF m.exc # "none" THEN m
                  ELSE JsonlLines(lines, lineno + 1, acc \o m.messages)

parse_jsonl(c) == JsonlLines(split(strip(c), "\n", -1), 1, <<>>)

\* ------------------------------------------------------------------------
\* parse_text
\* ------------------------------------------------------------------------
NoMatch == [ok |-> FALSE, role |-> <<>>, end |-> 0]

\* The labels of role_pattern, lower-cased (the pattern is IGNORECASE).
TextLabels ==
    {"user", "human", "customer", "assistant", "ai", "bot", "agent", "system", "tool"}

RECURSIVE SkipColonWs(_, _)
SkipColonWs(s, i) ==
    IF i <= Len(s) /\ s[i] \in (Whitespace \cup {":"}) THEN SkipColonWs(s, i + 1) ELSE i

\* role_pattern matched at position i:
\*   ^(?:\*\*|##\s*)?(User|...|Tool)(?:\*\*)?[:\s]*\n?
\* role is group 1, end the position after the match.
RoleMatchAt(s, i) ==
    IF i > Len(s) \/ ~LineStart(s, i) THEN NoMatch
    ELSE LET lp == IF s[i] = "**" THEN i + 1
                   ELSE IF s[i] = "##" THEN SkipWs(s, i + 1)
                   ELSE i
         IN  IF lp > Len(s) \/ LowerAtom(s[lp]) \notin TextLabels THEN NoMatch
             ELSE LET p2 == IF lp + 1 <= Len(s) /\ s[lp + 1] = "**"
                            THEN lp + 2 ELSE lp + 1
                  IN  [ok |-> TRUE, role |-> <<s[lp]>>, end |-> SkipColonWs(s, p2)]

\* role_pattern.split(s): pos is where the search goes on, last where the
\* pending piece of text starts.
RECURSIVE TextSplit(_, _, _, _)
TextSplit(s, pos, last, acc) ==
    IF pos > Len(s) THEN Append(acc, SubSeq(s, last, Len(s)))
    ELSE LET m == RoleMatchAt(s, pos) IN
         IF m.ok
         THEN TextSplit(s, m.end, m.end,
                        acc \o <<SubSeq(s, last, pos - 1), m.role>>)
         ELSE TextSplit(s, pos + 1, last, acc)

\* The loop of lines 257-264 / 302-311 over the (role, body) pairs from
\* parts[i] on (i 0-based); sub is applied to the stripped body.
\* The substitution left out: the body keeps a trailing separator.
SubSeparator_keep(body) == body

\* re.sub(r"\n---\s*$", "", body)
SubSeparator(body) ==
    IF \E j \in 1..(Len(body) - 1) :
          body[j] = "\n" /\ body[j + 1] = "---" /\ SkipWs(body, j + 2) > Len(body)
    THEN LET j == CHOOSE j \in 1..(Len(body) - 1) :
                      /\ body[j] = "\n" /\ body[j + 1] = "---"
                      /\ SkipWs(body, j + 2) > Len(body)
         IN  SubSeq(body, 1, j - 1)
    ELSE body

\* The loop without the tests of lines 262 and 309: a blank body is
\* emitted too.
RECURSIVE Pairs_keep_blank(_, _, _, _)
Pairs_keep_blank(parts, i, nanobot, acc) ==
    IF ~(i < Len(parts) - 1) THEN acc
    ELSE LET raw_role == strip(parts[i + 1])
             body == IF nanobot
                     THEN strip(SubSeparator(strip(parts[i + 2])))
                     ELSE strip(parts[i + 2])
         IN  Pairs_keep_blank(parts, i + 2, nanobot,
                   Append(acc, Message(_normalize_role(raw_role), body, EmptyDict)))

RECURSIVE Pairs(_, _, _, _)
Pairs(parts, i, nanobot, acc) ==
    IF ~(i < Len(parts) - 1) THEN acc
    ELSE LET raw_role == strip(parts[i + 1])
             body == IF nanobot
                     THEN strip(SubSeparator(strip(parts[i + 2])))
                     ELSE strip(parts[i + 2])
         IN  Pairs(parts, i + 2, nanobot,
                   IF body # <<>>
                   THEN Append(acc, Message(_normalize_role(raw_role), body, EmptyDict))
                   ELSE acc)

\* parse_text emitting the content as it is when no marker is found.
parse_text_untrimmed(c) ==
    LET parts == TextSplit(c, 1, 1, <<>>) IN
    IF Len(parts) < 3
    THEN IF strip(c) # <<>>
         THEN Return(<<Message(<<"unknown">>, c, EmptyDict)>>)
         ELSE Return(<<>>)
    ELSE Return(Pairs(parts, 1, FALSE, <<>>))

parse_text(c) ==
    LET parts == TextSplit(c, 1, 1, <<>>) IN
    IF Len(parts) < 3
    THEN IF strip(c) # <<>>
         THEN Return(<<Message(<<"unknown">>, strip(c), EmptyDict)>>)
         ELSE Return(<<>>)
    ELSE Return(Pairs(parts, 1, FALSE, <<>>))

\* ------------------------------------------------------------------------
\* parse_nanobot
\* ------------------------------------------------------------------------
\* End offset of the match of
\*   ^(session_id|agent|model|timestamp)\s*[:=].*$
\* that starts at position i: the end of the line that holds the [:=].
MetaLineEnd(s, i) ==
    LET q == FindAtom(s, "\n", SkipWs(s, i + 1)) IN
    IF q = 0 THEN Len(s) ELSE q - 1

\* A header that is only the metadata line at the very start of the text.
HeaderEnd_leading(s) == IF MetaMatchAt(s, 1) THEN MetaLineEnd(s, 1) ELSE 0

\* Lines 287-289.
HeaderEnd(s) ==
    LET ends == {MetaLineEnd(s, i) : i \in {k \in 1..Len(s) : MetaMatchAt(s, k)}} IN
    IF ends = {} THEN 0
    ELSE CHOOSE e \in ends : \A f \in ends : f <= e

SectionLabels == {"human", "assistant", "user", "ai", "system", "tool"}

\* section_pattern matched at position i:
\*   ^##\s*(Human|Assistant|User|AI|System|Tool)\s*$
\* The greedy \s* gives back whitespace until $ stands at the end of the
\* text or before a newline.
SectionMatchAt(s, i) ==
    IF i > Len(s) \/ ~LineStart(s, i) \/ s[i] # "##" THEN NoMatch
    ELSE LET lp == SkipWs(s, i + 1) IN
         IF lp > Len(s) \/ LowerAtom(s[lp]) \notin SectionLabels THEN NoMatch
         ELSE LET e == SkipWs(s, lp + 1)
                  stops == {p \in (lp + 1)..e : p = Len(s) + 1 \/ (p <= Len(s) /\ s[p] = "\n")}
              IN  IF stops = {} THEN NoMatch
                  ELSE [ok |-> TRUE, role |-> <<s[lp]>>,
                        end |-> CHOOSE p \in stops : \A q \in stops : q <= p]

RECURSIVE SectionSplit(_, _, _, _)
SectionSplit(s, pos, last, acc) ==
    IF pos > Len(s) THEN Append(acc, SubSeq(s, last, Len(s)))
    ELSE LET m == SectionMatchAt(s, pos) IN
         IF m.ok
         THEN SectionSplit(s, m.end, m.end,
                           acc \o <<SubSeq(s, last, pos - 1), m.role>>)
         ELSE SectionSplit(s, pos + 1, last, acc)

\* parse_nanobot falling back only when the body holds no section marker.
parse_nanobot_marker_fallback(c) ==
    LET body == strip(From(c, HeaderEnd(c)))
        parts == SectionSplit(body, 1, 1, <<>>)
    IN  IF Len(parts) < 3 THEN parse_text(c) ELSE Return(Pairs(parts, 1, TRUE, <<>>))

parse_nanobot(c) ==
    LET body == strip(From(c, HeaderEnd(c)))
        messages == Pairs(SectionSplit(body, 1, 1, <<>>), 1, TRUE, <<>>)
    IN  IF messages = <<>> THEN parse_text(c) ELSE Return(messages)

\* ------------------------------------------------------------------------
\* parse_session
\* ------------------------------------------------------------------------
Parser(fmt, c) ==
    CASE fmt = "json" -> parse_json(c)
      [] fmt = "jsonl" -> parse_jsonl(c)
      [] fmt = "nanobot" -> parse_nanobot(c)
      [] OTHER -> parse_text(c)

\* The value parse_session returns or the exception it raises: a Session
\* is exc = "none" with its messages, source and format_detected.
Session(msgs, src, fmt) ==
    [exc |-> "none", text |-> "", num |-> -1, fmt |-> fmt, messages |-> msgs,
     source |-> src]

Raised(r) ==
    [exc |-> r.exc, text |-> r.text, num |-> r.num, fmt |-> r.fmt,
     messages |-> <<>>, source |-> ""]

\* parse_session testing `not content` only.
parse_session_empty_only(c, src) ==
    IF c = <<>>
    THEN Raised(Raise("ParseError", "Empty session log", -1, ""))
    ELSE LET fmt == detect_format(c)
             r == Parser(fmt, c)
         IN  IF r.exc # "none" THEN Raised(r)
             ELSE IF r.messages = <<>>
                  THEN Raised(Raise("ParseError", "No messages found in session log",
                                    -1, fmt))
             ELSE Session(r.messages, src, fmt)

\* parse_session without the test of lines 354-355.
parse_session_allow_empty(c, src) ==
    IF c = <<>> \/ strip(c) = <<>>
    THEN Raised(Raise("ParseError", "Empty session log", -1, ""))
    ELSE LET fmt == detect_format(c)
             r == Parser(fmt, c)
         IN  IF r.exc # "none" THEN Raised(r)
             ELSE Session(r.messages, src, fmt)

\* parse_session trying the generic-narrative parser when the selected
\* parser raises.
parse_session_retry_text(c, src) ==
    IF c = <<>> \/ strip(c) = <<>>
    THEN Raised(Raise("ParseError", "Empty session log", -1, ""))
    ELSE LET fmt == detect_format(c)
             first == Parser(fmt, c)
             r == IF first.exc # "none" THEN parse_text(c) ELSE first
         IN  IF r.messages = <<>>
             THEN Raised(Raise("ParseError", "No messages found in session log",
                               -1, fmt))
             ELSE Session(r.messages, src, fmt)

parse_session(c, src) ==
    IF c = <<>> \/ strip(c) = <<>>
    THEN Raised(Raise("ParseError", "Empty session log", -1, ""))
    ELSE LET fmt == detect_format(c)
             r == Parser(fmt, c)
         IN  IF r.exc # "none" THEN Raised(r)
             ELSE IF r.messages = <<>>
                  THEN Raised(Raise("ParseError", "No messages found in session log",
                                    -1, fmt))
             ELSE Session(r.messages, src, fmt)

\* ------------------------------------------------------------------------
\* Session: the derived statistics (parser.py lines 37-65)
\* ------------------------------------------------------------------------
\* len(s) of a Python str: the characters of its atoms.
RECURSIVE StrLen(_)
StrLen(s) == IF s = <<>> THEN 0 ELSE Len(Head(s)) + StrLen(Tail(s))

message_count(s) == Len(s.messages)

IsUser(m) == m.role = <<"user">>

IsAssistant(m) == m.role = <<"assistant">>

user_messages(s) == SelectSeq(s.messages, IsUser)

assistant_messages(s) == SelectSeq(s.messages, IsAssistant)

\* sum(len(m.content) for m in self.messages)
RECURSIVE SumContentLen(_)
SumContentLen(msgs) ==
    IF msgs = <<>> THEN 0
    ELSE StrLen(Head(msgs).content) + SumContentLen(Tail(msgs))

\* stats() estimating one token per 4 characters, rounded up.
stats_round_up(s) ==
    LET total_chars == SumContentLen(s.messages) IN
    [total_messages |-> message_count(s),
     user_messages |-> Len(user_messages(s)),
     assistant_messages |-> Len(assistant_messages(s)),
     total_chars |-> total_chars,
     estimated_tokens |-> (total_chars + 3) \div 4]

stats(s) ==
    LET total_chars == SumContentLen(s.messages) IN
    [total_messages |-> message_count(s),
     user_messages |-> Len(user_messages(s)),
     assistant_messages |-> Len(assistant_messages(s)),
     total_chars |-> total_chars,
     estimated_tokens |-> total_chars \div 4]

\* ------------------------------------------------------------------------
\* parse_file (parser.py lines 364-389)
\* ------------------------------------------------------------------------
\* The bytes of a file are a sequence of tokens: an atom of ASCII text
\* stands for its own bytes, "\r" for a carriage return, and "0xC3",
\* "0xA9", "0xFF" for single bytes above 0x7F.  C3 A9 is the UTF-8 encoding
\* of U+00E9; A9 without a lead byte, C3 without a continuation byte and FF
\* are not valid UTF-8.
HighBytes == {"0xC3", "0xA9", "0xFF"}

\* bytes.decode("utf-8"): ok = FALSE stands for UnicodeDecodeError.
RECURSIVE decode_utf8(_)
decode_utf8(b) ==
    IF b = <<>> THEN [ok |-> TRUE, text |-> <<>>]
    ELSE IF Head(b) = "0xC3" /\ Len(b) >= 2 /\ b[2] = "0xA9"
         THEN LET rest == decode_utf8(SubSeq(b, 3, Len(b))) IN
              [ok |-> rest.ok, text |-> <<"U+00E9">> \o rest.text]
    ELSE IF Head(b) \in HighBytes THEN [ok |-> FALSE, text |-> <<>>]
    ELSE LET rest == decode_utf8(Tail(b)) IN
         [ok |-> rest.ok, text |-> <<Head(b)>> \o rest.text]

\* bytes.decode("latin-1"): every byte is one character.
Latin1Char(t) ==
    CASE t = "0xC3" -> "U+00C3"
      [] t = "0xA9" -> "U+00A9"
      [] t = "0xFF" -> "U+00FF"
      [] OTHER -> t

decode_latin1(b) == [i \in 1..Len(b) |-> Latin1Char(b[i])]

\* The newline translation of a file opened in text mode: "\r\n" and a
\* lone "\r" are read as "\n".
RECURSIVE UniversalNewlines(_)
UniversalNewlines(t) ==
    IF t = <<>> THEN <<>>
    ELSE IF Head(t) = "\r" /\ Len(t) >= 2 /\ t[2] = "\n"
         THEN <<"\n">> \o UniversalNewlines(SubSeq(t, 3, Len(t)))
    ELSE IF Head(t) = "\r" THEN <<"\n">> \o UniversalNewlines(Tail(t))
    ELSE <<Head(t)>> \o UniversalNewlines(Tail(t))

\* Lines 383-387: path.read_text as UTF-8, and as Latin-1 after a
\* UnicodeDecodeError.
read_text(b) ==
    LET u == decode_utf8(b) IN
    IF u.ok THEN UniversalNewlines(u.text) ELSE UniversalNewlines(decode_latin1(b))

\* str(Path(filepath)) for the explored paths: a leading "./" and a
\* trailing "/" are dropped, the empty path is ".".
PathStr(p) ==
    CASE p = "./log.txt" -> "log.txt"
      [] p = "dir/" -> "dir"
      [] p = "" -> "."
      [] OTHER -> p

\* A file system maps the paths that exist to a directory or to a regular
\* file with its bytes.
Directory == [kind |-> "dir", bytes |-> <<>>]

RegularFile(b) == [kind |-> "file", bytes |-> b]

exists(fs, p) == PathStr(p) \in DOMAIN fs

is_file(fs, p) == exists(fs, p) /\ fs[PathStr(p)].kind = "file"

\* parse_file without the Latin-1 fallback.
parse_file_utf8_only(fs, p) ==
    IF ~exists(fs, p)
    THEN Raised(Raise("FileNotFoundError", "Session file not found", -1, ""))
    ELSE IF ~is_file(fs, p)
         THEN Raised(Raise("ParseError", "Not a file", -1, ""))
    ELSE LET u == decode_utf8(fs[PathStr(p)].bytes) IN
         IF u.ok THEN parse_session(UniversalNewlines(u.text), PathStr(p))
         ELSE Raised(Raise("UnicodeDecodeError", "utf-8", -1, ""))

parse_file(fs, p) ==
    IF ~exists(fs, p)
    THEN Raised(Raise("FileNotFoundError", "Session file not found", -1, ""))
    ELSE IF ~is_file(fs, p)
         THEN Raised(Raise("ParseError", "Not a file", -1, ""))
    ELSE parse_session(read_text(fs[PathStr(p)].bytes), PathStr(p))

\* ------------------------------------------------------------------------
\* Reflection storage (storage.py lines 21-50)
\* ------------------------------------------------------------------------
\* The reflections file: absent, a JSON list of records, JSON that is not
\* a list, or empty (opened for writing and not written yet).  A record is
\* [id, timestamp]; timestamp "none" is a record without that key.
Absent == [kind |-> "absent", records |-> <<>>]

ListFile(records) == [kind |-> "list", records |-> records]

OtherJson == [kind |-> "other", records |-> <<>>]

EmptyFile == [kind |-> "empty", records |-> <<>>]

\* _load_all: ok = FALSE stands for the json.JSONDecodeError of an empty
\* file.
_load_all(file) ==
    IF file.kind = "empty" THEN [ok |-> FALSE, records |-> <<>>]
    ELSE IF file.kind = "list" THEN [ok |-> TRUE, records |-> file.records]
    ELSE [ok |-> TRUE, records |-> <<>>]

\* Lines 45-46: the timestamp is added when the record has none.
Stamped(reflection) ==
    IF reflection.timestamp = "none"
    THEN [reflection EXCEPT !.timestamp = "now"]
    ELSE reflection

\* ------------------------------------------------------------------------
\* Explored inputs
\* ------------------------------------------------------------------------
SeqsUpTo(S, n) == UNION {[1..k -> S] : k \in 0..n}

\* Line-delimited inputs: blank lines, a mapping, a line that is not JSON,
\* a JSON value that is not a mapping.
JsonlLib == {<<>>, <<ObjUser>>, <<"oops">>, <<"1">>}

JsonlInputs == {join(<<"\n">>, ls) : ls \in SeqsUpTo(JsonlLib, MaxJsonlLines)}

\* Narrative inputs.
NarrLib ==
    {<<>>,
     <<"##", " ", "Human">>,
     <<"##", " ", "Assistant">>,
     <<"---">>,
     <<"agent", ":", " ", "x">>,
     <<" ", "model", "=", "x">>,
     <<"User", ":">>,
     <<"hi">>,
     <<ObjNoRole>>}

NarrInputs == {join(<<"\n">>, ls) : ls \in SeqsUpTo(NarrLib, MaxNarrLines)}

\* JSON arrays, written on one line or with one element per line.
StrMarkers ==
    <<"\"", "##", " ", "Human", " ", "##", " ", "Assistant", " ", "---", "\"">>

ElemLib == {<<o>> : o \in ObjAtoms} \cup {<<"1">>, StrMarkers}

ArrayText(es, sep) == <<"[">> \o sep \o join(<<",">> \o sep, es) \o sep \o <<"]">>

ArrayInputs ==
    {ArrayText(es, sep) : es \in SeqsUpTo(ElemLib, MaxElems), sep \in {<<>>, <<"\n">>}}

\* Role labels with surrounding whitespace.
LabelAtoms ==
    {"user", "User", "USER", "human", "Human", "HUMAN", "customer", "Customer",
     "assistant", "Assistant", "ai", "AI", "bot", "Bot", "agent", "Agent",
     "system", "System", "tool", "Tool", "TOOL", "function", "Function",
     "developer", "Developer", "unknown", "x"}

Pads == SeqsUpTo(Whitespace, MaxPad)

RawInputs ==
    {p \o w \o q : p \in Pads, q \in Pads,
                   w \in {<<a>> : a \in LabelAtoms} \cup {<<"User", "s">>, <<"tool", " ", "x">>}}

\* The marker-narrative transcript
\*   ## Human / Do X / (blank) / ## Assistant / Done / ---
\* with the line `session_id: 42` put in front of line k + 1 (k = 0: before
\* the block, k = 6: after it) or left out, with and without a final
\* newline.
BlockLines ==
    <<(<<"##", " ", "Human">>), (<<"Do", " ", "X">>), (<<>>),
      (<<"##", " ", "Assistant">>), (<<"Done">>), (<<"---">>)>>

SessionLine == <<"session_id", ":", " ", "42">>

InsertLine(ls, l, k) == SubSeq(ls, 1, k) \o <<l>> \o SubSeq(ls, k + 1, Len(ls))

BlockWithSession(k) == join(<<"\n">>, InsertLine(BlockLines, SessionLine, k))

FinalNewline == {<<>>, <<"\n">>}

ScenarioInputs ==
    {BlockWithSession(k) \o nl : k \in 0..Len(BlockLines), nl \in FinalNewline}
    \cup {join(<<"\n">>, BlockLines) \o nl : nl \in FinalNewline}

\* Transcripts of lines `<Label>: <text>`: every label of role_pattern, in
\* mixed letter case, with a text of several words, a text with a trailing
\* blank, and a text that starts with a colon.
LabelWords ==
    {"User", "HUMAN", "customer", "Assistant", "AI", "bot", "agent", "System", "TOOL"}

LineTexts ==
    {<<"fix", " ", "the", " ", "bug">>, <<"fixed", " ", "it", " ">>, <<":", ")">>}

\* Every label with one text, and one label with every text.
LabelLineLib ==
    {<<l, ":", " ", "fix", " ", "the", " ", "bug">> : l \in LabelWords}
    \cup {<<"User", ":", " ">> \o t : t \in LineTexts}

LabelLineInputs ==
    {join(<<"\n">>, ls) : ls \in SeqsUpTo(LabelLineLib, MaxLabelLines) \ {<<>>}}

\* Two JSON mapping lines followed by marker-narrative signals.
MarkerLib ==
    {<<"---">>, <<"agent", ":", " ", "x">>, <<"##", " ", "Human">>}

MarkedJsonlInputs ==
    {join(<<"\n">>, <<(<<ObjUser>>), (<<ObjNoRole>>)>> \o ms) :
        ms \in SeqsUpTo(MarkerLib, MaxMarkerLines)}

\* Line-delimited inputs with blank lines, a non-mapping value, a line that
\* is not JSON, and mappings that may carry a role that is not a string.
MixedLineLib == {<<>>, <<ObjUser>>, <<ObjNullRole>>, <<"oops">>, <<"1">>}

MixedLineInputs == {join(<<"\n">>, ls) : ls \in SeqsUpTo(MixedLineLib, MaxMixedLines)}

\* Lines that begin with a longer word of which a label is a prefix
\* (Users, Airport, Toolbox, Systematic), next to a plain line and a line
\* with a real marker.
PrefixLib ==
    {<<"User", "s", " ", "are", " ", "here">>,
     <<"Ai", "rport", " ", "x">>,
     <<"Tool", "box">>,
     <<"System", "atic">>,
     <<"hi">>,
     <<"User", ":", " ", "hi">>}

PrefixInputs == {join(<<"\n">>, ls) : ls \in SeqsUpTo(PrefixLib, MaxPrefixLines)}

Sources == {"", "stdin"}

\* Files: lines of ASCII text, a line with the UTF-8 encoding of U+00E9, a
\* line with a byte that is not valid UTF-8, a JSON mapping line and a
\* blank line, ended by "\n" or by "\r\n".
FileLineLib ==
    {<<>>,
     <<"User", ":", " ", "hi">>,
     <<"Assistant", ":", " ", "0xC3", "0xA9">>,
     <<"x", "0xFF">>,
     <<ObjUser>>}

LineEnds == {<<"\n">>, <<"\r", "\n">>}

RECURSIVE EndedLines(_, _)
EndedLines(ls, nl) ==
    IF ls = <<>> THEN <<>> ELSE Head(ls) \o nl \o EndedLines(Tail(ls), nl)

FileBytes ==
    {EndedLines(ls, nl) : ls \in SeqsUpTo(FileLineLib, MaxFileLines), nl \in LineEnds}

\* The directories "." and "dir", and log.txt missing or a regular file.
Directories == ("." :> Directory) @@ ("dir" :> Directory)

FileSystems ==
    {Directories} \cup {Directories @@ ("log.txt" :> RegularFile(b)) : b \in FileBytes}

Paths == {"log.txt", "./log.txt", "dir", "dir/", "missing.txt", ""}

\* Contents of a batch: one of each format, an empty content, a content
\* without messages, a malformed third line and a role that is not a string.
BatchContents ==
    {<<>>,
     <<"User", ":">>,
     <<"User", ":", " ", "hi">>,
     join(<<"\n">>, BlockLines),
     <<"[", ObjBot, ",", ObjNoRole, "]">>,
     <<"[", ObjNullRole, "]">>,
     <<ObjUser, "\n", ObjBot>>,
     <<ObjUser, "\n", ObjBot, "\n", "oops">>}

\* Reflections to save: call i saves the record with id i, with or without
\* a timestamp of its own.  The file starts absent, as an empty list, as a
\* list with one older record, or as JSON that is not a list.
OldRecord == [id |-> 0, timestamp |-> "t0"]

Reflections(i) == {[id |-> i, timestamp |-> t] : t \in {"none", "t0"}}

StoredInputs == {Absent, ListFile(<<>>), ListFile(<<OldRecord>>), OtherJson}

\* ------------------------------------------------------------------------
\* The calls
\* ------------------------------------------------------------------------
NoRet == Session(<<>>, "", "")

\* No statistics computed, no file system, no batch, no reflections file.
NoStats ==
    [total_messages |-> -1, user_messages |-> -1, assistant_messages |-> -1,
     total_chars |-> -1, estimated_tokens |-> -1]

NoFiles == [p \in {} |-> 0]

Idle ==
    /\ statistics = NoStats
    /\ filepath = ""
    /\ files = NoFiles
    /\ calls = <<>>
    /\ stored = Absent
    /\ saves = <<>>

Init ==
    /\ op = "none"
    /\ ret = NoRet
    /\ Idle
    /\ \/ content \in JsonlInputs /\ source = "stdin" /\ raw = <<"user">>
       \/ content \in NarrInputs /\ source = "stdin" /\ raw = <<"user">>
       \/ content \in ArrayInputs /\ source \in Sources /\ raw = <<"user">>
       \/ content = <<"hi">> /\ source = "stdin" /\ raw \in RawInputs
       \/ content \in ScenarioInputs /\ source = "stdin" /\ raw = <<"user">>
       \/ content \in LabelLineInputs /\ source = "stdin" /\ raw = <<"user">>
       \/ content \in PrefixInputs /\ source = "stdin" /\ raw = <<"user">>
       \/ content \in MixedLineInputs /\ source = "stdin" /\ raw = <<"user">>
       \/ content \in MarkedJsonlInputs /\ source = "stdin" /\ raw = <<"user">>

\* detect_format(content)
DetectFormat ==
    /\ op = "none"
    /\ op' = "detect_format"
    /\ ret' = Session(<<>>, "", detect_format(content))
    /\ UNCHANGED <<content, source, raw, outside>>

\* parse_session(content, source)
ParseSession ==
    /\ op = "none"
    /\ op' = "parse_session"
    /\ ret' = parse_session(content, source)
    /\ UNCHANGED <<content, source, raw, outside>>

\* _normalize_role(raw); the result is in ret.messages[1].role
NormalizeRole ==
    /\ op = "none"
    /\ op' = "_normalize_role"
    /\ ret' = Session(<<Message(_normalize_role(raw), <<>>, EmptyDict)>>, "", "")
    /\ UNCHANGED <<content, source, raw, outside>>

Next == DetectFormat \/ ParseSession \/ NormalizeRole

Spec == Init /\ [][Next]_vars

\* ------------------------------------------------------------------------
\* The four grammar parsers called on their own, on any content
\* ------------------------------------------------------------------------
\* What a parser call leaves: the returned messages or the raised exception.
Outcome(r) == IF r.exc = "none" THEN Session(r.messages, "", "") ELSE Raised(r)

ParserInputs ==
    NarrInputs \cup ArrayInputs \cup ScenarioInputs
    \cup LabelLineInputs \cup PrefixInputs \cup MixedLineInputs

InitParsers ==
    /\ op = "none"
    /\ ret = NoRet
    /\ content \in ParserInputs
    /\ source = ""
    /\ raw = <<"user">>
    /\ Idle

\* parse_json(content)
ParseJson ==
    /\ op = "none"
    /\ op' = "parse_json"
    /\ ret' = Outcome(parse_json(content))
    /\ UNCHANGED <<content, source, raw, outside>>

\* parse_jsonl(content)
ParseJsonl ==
    /\ op = "none"
    /\ op' = "parse_jsonl"
    /\ ret' = Outcome(parse_jsonl(content))
    /\ UNCHANGED <<content, source, raw, outside>>

\* parse_text(content)
ParseText ==
    /\ op = "none"
    /\ op' = "parse_text"
    /\ ret' = Outcome(parse_text(content))
    /\ UNCHANGED <<content, source, raw, outside>>

\* parse_nanobot(content)
ParseNanobot ==
    /\ op = "none"
    /\ op' = "parse_nanobot"
    /\ ret' = Outcome(parse_nanobot(content))
    /\ UNCHANGED <<content, source, raw, outside>>

\* The parsers, and the entry point on the same contents.
NextParsers == ParseJson \/ ParseJsonl \/ ParseText \/ ParseNanobot \/ ParseSession

ParserSpec == InitParsers /\ [][NextParsers]_vars

\* ------------------------------------------------------------------------
\* Statistics of a parsed Session
\* ------------------------------------------------------------------------
\* session.stats() on the Session that parse_session returned.
Stats ==
    /\ op = "parse_session"
    /\ ret.exc = "none"
    /\ op' = "stats"
    /\ statistics' = stats(ret)
    /\ UNCHANGED <<content, source, raw, ret, filepath, files, calls, stored, saves>>

NextStats == ParseSession \/ Stats

StatsSpec == InitParsers /\ [][NextStats]_vars

\* ------------------------------------------------------------------------
\* The path-based entry point
\* ------------------------------------------------------------------------
InitFiles ==
    /\ op = "none"
    /\ ret = NoRet
    /\ content = <<>>
    /\ source = ""
    /\ raw = <<"user">>
    /\ filepath \in Paths
    /\ files \in FileSystems
    /\ statistics = NoStats
    /\ calls = <<>>
    /\ stored = Absent
    /\ saves = <<>>

\* parse_file(filepath)
ParseFile ==
    /\ op = "none"
    /\ op' = "parse_file"
    /\ ret' = parse_file(files, filepath)
    /\ UNCHANGED <<content, source, raw, outside>>

NextFiles == ParseFile

FileSpec == InitFiles /\ [][NextFiles]_vars

\* ------------------------------------------------------------------------
\* A batch of parse_session calls run by worker threads
\* ------------------------------------------------------------------------
\* The locals of one call: its arguments, where it stands, fmt (line 342),
\* the parser outcome (line 352) and what it returned or raised.
NewCall(c, src) ==
    [content |-> c, source |-> src, pc |-> "start", fmt |-> "",
     result |-> Return(<<>>), ret |-> NoRet]

InitBatch ==
    /\ op = "none"
    /\ ret = NoRet
    /\ content = <<>>
    /\ source = ""
    /\ raw = <<"user">>
    /\ calls \in [1..MaxCalls -> {NewCall(c, src) : c \in BatchContents, src \in Sources}]
    /\ statistics = NoStats
    /\ filepath = ""
    /\ files = NoFiles
    /\ stored = Absent
    /\ saves = <<>>

BatchFrame == UNCHANGED <<content, source, raw, op, ret, statistics, filepath, files, stored, saves>>

\* Lines 339-342 of call i: the test for empty content, then detect_format.
CallDetect(i) ==
    /\ calls[i].pc = "start"
    /\ LET c == calls[i].content IN
       calls' = [calls EXCEPT ![i] =
           IF c = <<>> \/ strip(c) = <<>>
           THEN [@ EXCEPT !.pc = "done",
                          !.ret = Raised(Raise("ParseError", "Empty session log", -1, ""))]
           ELSE [@ EXCEPT !.pc = "detected", !.fmt = detect_format(c)]]
    /\ BatchFrame

\* Lines 344-352 of call i with the format of the call that detected
\* first, as if fmt were kept in one place for the whole batch.
CallParse_shared_format(i) ==
    /\ calls[i].pc = "detected"
    /\ calls' = [calls EXCEPT ![i] =
           [@ EXCEPT !.pc = "parsed", !.result = Parser(calls[1].fmt, calls[i].content)]]
    /\ BatchFrame

\* Lines 344-352 of call i: the selected parser runs on the content.
CallParse(i) ==
    /\ calls[i].pc = "detected"
    /\ calls' = [calls EXCEPT ![i] =
           [@ EXCEPT !.pc = "parsed", !.result = Parser(calls[i].fmt, calls[i].content)]]
    /\ BatchFrame

\* Lines 352-361 of call i: the exception of the parser, the error for an
\* empty message list, or the Session.
CallReturn(i) ==
    /\ calls[i].pc = "parsed"
    /\ LET r == calls[i].result IN
       calls' = [calls EXCEPT ![i] =
           [@ EXCEPT !.pc = "done",
                     !.ret = IF r.exc # "none" THEN Raised(r)
                             ELSE IF r.messages = <<>>
                                  THEN Raised(Raise("ParseError",
                                                    "No messages found in session log",
                                                    -1, calls[i].fmt))
                             ELSE Session(r.messages, calls[i].source, calls[i].fmt)]]
    /\ BatchFrame

NextBatch == \E i \in 1..MaxCalls : CallDetect(i) \/ CallParse(i) \/ CallReturn(i)

BatchSpec == InitBatch /\ [][NextBatch]_vars

\* ------------------------------------------------------------------------
\* save_reflection calls on one data directory
\* ------------------------------------------------------------------------
\* The locals of one call: the record to save, where the call stands, and
\* the list `records` of line 44.
NewSave(r) == [reflection |-> r, pc |-> "start", records |-> <<>>]

InitStorage ==
    /\ op = "none"
    /\ ret = NoRet
    /\ content = <<>>
    /\ source = ""
    /\ raw = <<"user">>
    /\ stored \in StoredInputs
    /\ saves \in {s \in [1..MaxSaves -> UNION {{NewSave(r) : r \in Reflections(i)} : i \in 1..MaxSaves}] :
                     \A i \in 1..MaxSaves : s[i].reflection.id = i}
    /\ statistics = NoStats
    /\ filepath = ""
    /\ files = NoFiles
    /\ calls = <<>>

StorageFrame == UNCHANGED <<content, source, raw, op, ret, statistics, filepath, files, calls>>

\* Line 44 of call i: records = _load_all(data_dir); the JSONDecodeError
\* of a file that another call has opened and not written ends the call.
SaveLoad(i) ==
    /\ saves[i].pc = "start"
    /\ LET loaded == _load_all(stored) IN
       saves' = [saves EXCEPT ![i] =
           IF loaded.ok
           THEN [@ EXCEPT !.pc = "loaded", !.records = loaded.records]
           ELSE [@ EXCEPT !.pc = "failed"]]
    /\ UNCHANGED stored
    /\ StorageFrame

\* Lines 45-48 of call i: the timestamp, then records.append(reflection).
SaveAppend(i) ==
    /\ saves[i].pc = "loaded"
    /\ saves' = [saves EXCEPT ![i] =
           [@ EXCEPT !.pc = "appended",
                     !.reflection = Stamped(@),
                     !.records = Append(@, Stamped(saves[i].reflection))]]
    /\ UNCHANGED stored
    /\ StorageFrame

\* Line 35 of call i, first half: write_text opens the file for writing,
\* which leaves it empty.
SaveOpen(i) ==
    /\ saves[i].pc = "appended"
    /\ saves' = [saves EXCEPT ![i] = [@ EXCEPT !.pc = "opened"]]
    /\ stored' = EmptyFile
    /\ StorageFrame

\* Line 35 of call i, second half: the whole list is written.
SaveWrite(i) ==
    /\ saves[i].pc = "opened"
    /\ saves' = [saves EXCEPT ![i] = [@ EXCEPT !.pc = "done"]]
    /\ stored' = ListFile(saves[i].records)
    /\ StorageFrame

NextStorage ==
    \E i \in 1..MaxSaves : SaveLoad(i) \/ SaveAppend(i) \/ SaveOpen(i) \/ SaveWrite(i)

StorageSpec == InitStorage /\ [][NextStorage]_vars

\* ------------------------------------------------------------------------
\* Vocabulary of the properties
\* ------------------------------------------------------------------------
Tags == {"json", "jsonl", "nanobot", "text"}

Canonical == {<<"user">>, <<"assistant">>, <<"system">>, <<"tool">>}

Lines(c) == split(c, "\n", -1)

Blank(l) == strip(l) = <<>>

IsJson(l) == json_loads(l).ok

IsJsonMapping(l) == LET r == json_loads(l) IN r.ok /\ r.val.t = "dict"

\* c is the text of a JSON array.
IsJsonArrayText(c) == LET r == json_loads(c) IN r.ok /\ r.val.t = "list"

ArrayItems(c) == json_loads(c).val.v

\* The condition of the structured-array check: a non-empty JSON array
\* whose first element is a mapping with a role or a content key.
ArrayCond(c) ==
    /\ IsJsonArrayText(c)
    /\ LET items == ArrayItems(c) IN
       /\ Len(items) > 0
       /\ items[1].t = "dict"
       /\ ({"role", "content"} \cap DOMAIN items[1].v) # {}

\* The first 5 lines of the trimmed content, blank ones included.
Inspected(c) == LET ls == Lines(strip(c)) IN SubSeq(ls, 1, Min(5, Len(ls)))

\* Index in Inspected(c) of the first line that is neither blank nor valid
\* JSON; one past the last inspected line when there is none.
FirstBad(c) ==
    LET ins == Inspected(c)
        bad == {k \in 1..Len(ins) : ~Blank(ins[k]) /\ ~IsJson(ins[k])}
    IN  IF bad = {} THEN Len(ins) + 1
        ELSE CHOOSE k \in bad : \A j \in bad : k <= j

\* Number of inspected lines before FirstBad(c) that are JSON mappings.
CountedMappings(c) ==
    LET ins == Inspected(c) IN
    Cardinality({k \in 1..(FirstBad(c) - 1) : IsJsonMapping(ins[k])})

\* The condition of the line-delimited check.
LineCond(c) == CountedMappings(c) >= 2

\* The marker-narrative score of a text.
Bit(b) == IF b THEN 1 ELSE 0

Score(t) ==
    Bit(Contains(t, <<"##", " ", "Human">>))
    + Bit(Contains(t, <<"##", " ", "Assistant">>))
    + Bit(Contains(t, <<"---">>))
    + 2 * Bit(\E i \in 1..Len(t) : MetaMatchAt(t, i))

RoleContentMapping(x) ==
    /\ x.t = "dict"
    /\ {"role", "content"} \subseteq DOMAIN x.v
    /\ x.v["role"].t = "str"
    /\ x.v["content"].t = "str"

RoleContentArray(c) ==
    /\ c # <<>>
    /\ IsJsonArrayText(c)
    /\ \A k \in 1..Len(ArrayItems(c)) : RoleContentMapping(ArrayItems(c)[k])

\* parse_session returned exactly the messages of the elements, in order.
OneMessagePerElement ==
    LET items == ArrayItems(content) IN
    /\ ret.exc = "none"
    /\ Len(ret.messages) = Len(items)
    /\ \A k \in 1..Len(items) :
          /\ k <= Len(ret.messages)
          /\ ret.messages[k].content = items[k].v["content"].v
          /\ ret.messages[k].role = _normalize_role(items[k].v["role"].v)

\* C2 as stated: every such array, the array with zero elements included,
\* is tagged json and yields one message per element.
C2_Original ==
    RoleContentArray(content) =>
        /\ op = "detect_format" => ret.fmt = "json"
        /\ op = "parse_session" => OneMessagePerElement

\* C2 amended: every JSON array with at least one element, all of whose
\* elements are {role, content} mappings, is tagged json, and parse_session
\* returns exactly one message per element, in array order.
C2_Amended ==
    (RoleContentArray(content) /\ Len(ArrayItems(content)) >= 1) =>
        /\ op = "detect_format" => ret.fmt = "json"
        /\ op = "parse_session" => (ret.fmt = "json" /\ OneMessagePerElement)

C2_Witness ==
    /\ op = "parse_session"
    /\ RoleContentArray(content)
    /\ Len(ArrayItems(content)) = 2
    /\ ArrayItems(content)[1].v["content"].v # ArrayItems(content)[2].v["content"].v
    /\ ret.fmt = "json"
    /\ Len(ret.messages) = 2

\* ------------------------------------------------------------------------
\* C3: which contents the line-delimited check accepts.
\* ------------------------------------------------------------------------
NotBlank(l) == ~Blank(l)

\* The first 5 non-blank lines of the content.
First5NonBlank(c) ==
    LET nb == SelectSeq(Lines(c), NotBlank) IN SubSeq(nb, 1, Min(5, Len(nb)))

\* A mapping on line 1, four blank lines, a mapping on line 6.
SixLineExample(c) ==
    LET ls == Lines(c) IN
    /\ Len(ls) = 6
    /\ IsJsonMapping(ls[1])
    /\ IsJsonMapping(ls[6])
    /\ \A k \in 2..5 : Blank(ls[k])

HasBadLine(c) == FirstBad(c) <= Len(Inspected(c))

\* C4 as stated: when one of the inspected lines is not valid JSON the
\* content is never tagged jsonl.
C4_Original ==
    (op = "detect_format" /\ HasBadLine(content)) => ret.fmt # "jsonl"

\* C4 amended: an inspected line that is not valid JSON ends the
\* inspection; the lines after it are not counted, and the content is
\* tagged jsonl exactly when at least 2 JSON mappings were counted before
\* it.
C4_Amended ==
    (op = "detect_format" /\ HasBadLine(content)) =>
        (ret.fmt = "jsonl" <=> CountedMappings(content) >= 2)

C4_Witness ==
    /\ op = "detect_format"
    /\ HasBadLine(content)
    /\ CountedMappings(content) = 1
    /\ \E k \in (FirstBad(content) + 1)..Len(Inspected(content)) :
          IsJsonMapping(Inspected(content)[k])
    /\ ret.fmt # "jsonl"

C6_EmptyRejected ==
    (op = "parse_session" /\ strip(content) = <<>>) =>
        /\ ret.exc = "ParseError"
        /\ ret.text = "Empty session log"
        /\ ret.fmt = ""
        /\ ret.messages = <<>>

C6_Witness ==
    /\ op = "parse_session"
    /\ content # <<>>
    /\ strip(content) = <<>>
    /\ ret.exc = "ParseError"

\* ------------------------------------------------------------------------
\* C7: a Session returned by parse_session has at least one message, the
\* tag of detect_format and the caller's source label; when the selected
\* parser returns no message, parse_session raises the ParseError that
\* names the detected tag.
\* ------------------------------------------------------------------------
C7_SessionNonEmpty ==
    op = "parse_session" =>
        /\ ret.exc = "none" =>
              /\ Len(ret.messages) >= 1
              /\ ret.fmt = detect_format(content)
              /\ ret.source = source
        /\ (strip(content) # <<>>
              /\ Parser(detect_format(content), content).exc = "none"
              /\ Parser(detect_format(content), content).messages = <<>>) =>
              /\ ret.exc = "ParseError"
              /\ ret.text = "No messages found in session log"
              /\ ret.fmt = detect_format(content)

C7_Witness ==
    /\ op = "parse_session"
    /\ ret.exc = "ParseError"
    /\ ret.text = "No messages found in session log"
    /\ ret.fmt = "nanobot"

\* ------------------------------------------------------------------------
\* C8: parse_session returns a Session or raises ParseError, and nothing
\* else, whatever the JSON values of the fields of a structured element.
\* ------------------------------------------------------------------------
C8_OnlyParseError ==
    op = "parse_session" => ret.exc \in {"none", "ParseError"}

TableRole(k) ==
    IF k \in {<<"user">>, <<"human">>, <<"customer">>} THEN <<"user">>
    ELSE IF k \in {<<"assistant">>, <<"ai">>, <<"bot">>, <<"agent">>} THEN <<"assistant">>
    ELSE IF k = <<"system">> THEN <<"system">>
    ELSE IF k \in {<<"tool">>, <<"function">>} THEN <<"tool">>
    ELSE k

C10_NormalizeRole ==
    op = "_normalize_role" =>
        LET out == ret.messages[1].role IN
        /\ out = TableRole(strip(lower(raw)))
        /\ _normalize_role(lower(raw)) = out
        /\ _normalize_role(strip(raw)) = out
        /\ _normalize_role(out) = out
        /\ raw \in Canonical => out = raw

C10_Witness ==
    /\ op = "_normalize_role"
    /\ raw # strip(raw)
    /\ raw # lower(raw)
    /\ strip(lower(raw)) # <<"assistant">>
    /\ ret.messages[1].role = <<"assistant">>

\* ------------------------------------------------------------------------
\* C11: the block `## Human / Do X / (blank) / ## Assistant / Done / ---`
\* with a line `session_id: 42`.
\* ------------------------------------------------------------------------
SessionBefore == {BlockWithSession(0) \o nl : nl \in FinalNewline}

SessionAfter == {BlockWithSession(Len(BlockLines)) \o nl : nl \in FinalNewline}

TwoMessages(second) ==
    <<Message(<<"user">>, <<"Do", " ", "X">>, EmptyDict),
      Message(<<"assistant">>, second, EmptyDict)>>

\* C11 as stated: with the session_id line before or after the block,
\* parse_session returns format marker-narrative with exactly 2 messages,
\* user then assistant, contents exactly "Do X" and "Done".
C11_Original ==
    (op = "parse_session" /\ content \in SessionBefore \cup SessionAfter) =>
        ret = Session(TwoMessages(<<"Done">>), source, "nanobot")

\* C11 amended: with the session_id line before the block the result is
\* as stated; with the line after the block the format is still
\* marker-narrative and there are 2 messages, user then assistant, but the
\* header reaches to the end of the session_id line, no section is left,
\* the generic-narrative fallback parses the whole content and the second
\* content is "Done\n---\nsession_id: 42".
C11_Amended ==
    op = "parse_session" =>
        /\ content \in SessionBefore =>
              ret = Session(TwoMessages(<<"Done">>), source, "nanobot")
        /\ content \in SessionAfter =>
              ret = Session(TwoMessages(<<"Done", "\n", "---", "\n">> \o SessionLine),
                            source, "nanobot")

C11_Witness ==
    /\ op = "parse_session"
    /\ content \in SessionBefore
    /\ ret.fmt = "nanobot"
    /\ Len(ret.messages) = 2
    /\ ret.messages[2].content = <<"Done">>

\* ------------------------------------------------------------------------
\* C12: for content consisting only of lines `<Label>: <non-empty text>`,
\* Label one of User|Human|Customer|Assistant|AI|Bot|Agent|System|Tool in
\* any case, with no JSON and no marker-narrative signal, parse_session
\* returns format generic-narrative with exactly one message per line, in
\* line order, each with role = normalized label and content = the trimmed
\* text after the colon.
\* ------------------------------------------------------------------------
\* The text of a label line after its colon.
AfterColon(l) == From(l, 2)

IsLabelLine(l) ==
    /\ Len(l) >= 3
    /\ LowerAtom(l[1]) \in TextLabels
    /\ l[2] = ":"
    /\ strip(AfterColon(l)) # <<>>
    /\ \A k \in 1..Len(l) : l[k] \notin ObjAtoms \cup {"[", "\n"}

OnlyLabelLines(c) ==
    /\ \A k \in 1..Len(Lines(c)) : IsLabelLine(Lines(c)[k])
    /\ Score(c) = 0

C12_LabelLines ==
    (op = "parse_session" /\ OnlyLabelLines(content)) =>
        LET ls == Lines(content) IN
        /\ ret.exc = "none"
        /\ ret.fmt = "text"
        /\ Len(ret.messages) = Len(ls)
        /\ \A k \in 1..Len(ls) :
              /\ ret.messages[k].role = TableRole(<<LowerAtom(ls[k][1])>>)
              /\ ret.messages[k].content = strip(AfterColon(ls[k]))

\* ------------------------------------------------------------------------
\* C13: content without any role marker.
\* ------------------------------------------------------------------------
NoMarker(c) == \A i \in 1..Len(c) : ~RoleMatchAt(c, i).ok

\* The single message of role unknown that holds the trimmed content.
WholeText(c) == <<Message(<<"unknown">>, strip(c), EmptyDict)>>

\* What parse_text emits for a content without a marker.
NoMarkerText ==
    (op = "parse_text" /\ NoMarker(content)) =>
        /\ ret.exc = "none"
        /\ ret.messages = IF Blank(content) THEN <<>> ELSE WholeText(content)

SeparatedMarkerAt(s, i) ==
    /\ i <= Len(s)
    /\ LineStart(s, i)
    /\ LET lp == IF s[i] = "**" THEN i + 1
                 ELSE IF s[i] = "##" THEN SkipWs(s, i + 1)
                 ELSE i
       IN  /\ lp <= Len(s)
           /\ LowerAtom(s[lp]) \in TextLabels
           /\ LET p2 == IF lp + 1 <= Len(s) /\ s[lp + 1] = "**"
                        THEN lp + 2 ELSE lp + 1
              IN  p2 > Len(s) \/ s[p2] \in Whitespace \cup {":"}

C14_PrefixNotMarker ==
    (op = "parse_text" /\ \A i \in 1..Len(content) : ~SeparatedMarkerAt(content, i)) =>
        /\ ret.exc = "none"
        /\ ret.messages = IF Blank(content) THEN <<>> ELSE WholeText(content)

\* ------------------------------------------------------------------------
\* Contents of three or more lines, none blank, that are all JSON mappings
\* except line n, which is not JSON.
\* ------------------------------------------------------------------------
BadLineAt(c, n) ==
    LET ls == Lines(c) IN
    /\ Len(ls) >= 3
    /\ n \in 1..Len(ls)
    /\ \A k \in 1..Len(ls) :
          IF k = n THEN ~Blank(ls[k]) /\ ~IsJson(ls[k]) ELSE IsJsonMapping(ls[k])

\* ------------------------------------------------------------------------
\* C15: for an input with no blank lines in which every line is a JSON
\* mapping except line N, N >= 3, which is malformed JSON, detect_format
\* returns line-delimited and parse_session raises ParseError whose message
\* names line N; no Session is returned and the messages of lines 1..N-1
\* are not delivered.
\* ------------------------------------------------------------------------
C15_MalformedLineN ==
    \A n \in 3..Len(Lines(content)) :
        BadLineAt(content, n) =>
            /\ op = "detect_format" => ret.fmt = "jsonl"
            /\ op = "parse_session" =>
                  /\ ret.exc = "ParseError"
                  /\ ret.text = "Invalid JSON on line"
                  /\ ret.num = n
                  /\ ret.messages = <<>>

StringRole(l) ==
    LET d == json_loads(l).val.v IN "role" \in DOMAIN d => d["role"].t = "str"

NonMappings(items) == {k \in 1..Len(items) : items[k].t # "dict"}

\* 0-based index of the first element that is not a mapping.
FirstNonMapping(items) ==
    (CHOOSE k \in NonMappings(items) : \A j \in NonMappings(items) : k <= j) - 1

HasNonMapping(c) == IsJsonArrayText(c) /\ NonMappings(ArrayItems(c)) # {}

\* The mapping x has a role and part texts that lines 175-191 can convert:
\* a role that is a string (or none) and, in a list content, no text part
\* whose text is not a string.
Convertible(x) ==
    /\ "role" \in DOMAIN x.v => x.v["role"].t = "str"
    /\ ("content" \in DOMAIN x.v /\ x.v["content"].t = "list") =>
          \A k \in 1..Len(TextParts(x.v["content"].v)) :
              TextParts(x.v["content"].v)[k].t = "str"

\* ------------------------------------------------------------------------
\* C17: parse_json raises ParseError naming index i for the first element
\* i of the array that is not a mapping, returns no messages in that case,
\* and raises ParseError (not a JSON error) when the content is not valid
\* JSON or is valid JSON that is not an array.
\* ------------------------------------------------------------------------
C17_ParseJsonErrors ==
    op = "parse_json" =>
        /\ ~IsJson(content) =>
              ret.exc = "ParseError" /\ ret.text = "Invalid JSON"
        /\ (IsJson(content) /\ ~IsJsonArrayText(content)) =>
              ret.exc = "ParseError" /\ ret.text = "JSON content is not an array"
        /\ HasNonMapping(content) =>
              /\ ret.exc = "ParseError"
              /\ ret.text = "Item is not a JSON object"
              /\ ret.num = FirstNonMapping(ArrayItems(content))
              /\ ret.messages = <<>>

\* ------------------------------------------------------------------------
\* C18: the same arrays through parse_session.
\* ------------------------------------------------------------------------
\* C18 as stated: a JSON array with a non-mapping element at any index i,
\* i = 0 included, makes parse_session raise ParseError naming the index of
\* a non-mapping element; the input is never returned as a Session.
C18_Original ==
    (op = "parse_session" /\ HasNonMapping(content)) =>
        /\ ret.exc = "ParseError"
        /\ ret.num + 1 \in NonMappings(ArrayItems(content))

\* C18 amended: when the first element is a mapping with a role or a
\* content key, the array is tagged structured-array and parse_session
\* returns no Session: it raises, and what it raises is the ParseError
\* naming the first non-mapping index unless an element before it has a
\* role or a part text that is not a string (then that exception escapes
\* first); when the first element is not a mapping (i = 0) or has neither
\* key, detect_format does not tag the array structured-array and
\* parse_session returns it as one message of role unknown holding the
\* whole trimmed text, with the narrative format that detect_format
\* selects.
C18_Amended ==
    (op = "parse_session" /\ HasNonMapping(content)) =>
        LET items == ArrayItems(content)
            i == FirstNonMapping(items)
        IN  /\ ArrayCond(content) =>
                  /\ ret.exc # "none"
                  /\ ret.messages = <<>>
                  /\ ret.exc = "ParseError" =>
                        ret.num = i /\ ret.text = "Item is not a JSON object"
                  /\ (\A k \in 1..i : Convertible(items[k])) => ret.exc = "ParseError"
            /\ ~ArrayCond(content) =>
                  /\ detect_format(content) \in {"nanobot", "text"}
                  /\ ret = Session(WholeText(content), source, detect_format(content))

C18_Witness ==
    /\ op = "parse_session"
    /\ HasNonMapping(content)
    /\ ArrayCond(content)
    /\ ret.exc = "ParseError"
    /\ ret.num = 1

\* ------------------------------------------------------------------------
\* C19: the structured parsers do not filter on content: parse_json emits
\* exactly one message per array element and parse_jsonl exactly one
\* message per non-blank line that is a JSON mapping (well-formed
\* non-mapping lines are skipped without error), in input order, including
\* the elements whose content is missing or the empty string, which yield a
\* message with empty content.
\* ------------------------------------------------------------------------
\* The decoded mappings of the non-blank lines that are JSON mappings.
RECURSIVE MappingsOf(_)
MappingsOf(ls) ==
    IF ls = <<>> THEN <<>>
    ELSE (IF IsJsonMapping(Head(ls)) THEN <<json_loads(Head(ls)).val>> ELSE <<>>)
         \o MappingsOf(Tail(ls))

EmptyContent(x) ==
    "content" \notin DOMAIN x.v \/ x.v["content"] = JStr(<<>>)

\* msgs holds one message per mapping of items, in the same order.
OnePerMapping(msgs, items) ==
    /\ Len(msgs) = Len(items)
    /\ \A k \in 1..Len(items) :
          /\ k <= Len(msgs)
          /\ msgs[k].metadata = Metadata(items[k].v)
          /\ "role" \notin DOMAIN items[k].v => msgs[k].role = <<"unknown">>
          /\ EmptyContent(items[k]) => msgs[k].content = <<>>
          /\ ("content" \in DOMAIN items[k].v /\ items[k].v["content"].t = "str") =>
                msgs[k].content = items[k].v["content"].v

C19_NoContentFilter ==
    /\ (op = "parse_json" /\ IsJsonArrayText(content)
            /\ NonMappings(ArrayItems(content)) = {}) =>
          ret.exc = "none" /\ OnePerMapping(ret.messages, ArrayItems(content))
    /\ (op = "parse_jsonl"
            /\ \A k \in 1..Len(Lines(content)) :
                    Blank(Lines(content)[k]) \/ IsJson(Lines(content)[k])) =>
          ret.exc = "none" /\ OnePerMapping(ret.messages, MappingsOf(Lines(content)))

\* ------------------------------------------------------------------------
\* C20: every message emitted by the marker-narrative parser or the
\* generic-narrative parser (the fallback included) has non-empty content
\* without leading or trailing whitespace and an empty metadata mapping;
\* a marker/body pair whose body is blank after trimming produces no
\* message.
\* ------------------------------------------------------------------------
\* Positions of content where parse_text finds a marker, and the text
\* between the end of the marker at p and the next marker.
MarkerStarts(c) == {p \in 1..Len(c) : RoleMatchAt(c, p).ok}

\* The markers role_pattern.split uses: a match does not start inside the
\* previous match.
SplitMarkers(c) ==
    {p \in MarkerStarts(c) :
        \A q \in MarkerStarts(c) : q < p => RoleMatchAt(c, q).end <= p}

BodyAfter(c, p) ==
    LET later == {q \in SplitMarkers(c) : q > p}
        stop == IF later = {} THEN Len(c) + 1
                ELSE CHOOSE q \in later : \A r \in later : q <= r
    IN  SubSeq(c, RoleMatchAt(c, p).end, stop - 1)

NarrativeResult ==
    \/ op \in {"parse_text", "parse_nanobot"}
    \/ op = "parse_session" /\ ret.fmt \in {"nanobot", "text"}

C20_NarrativeMessages ==
    /\ NarrativeResult =>
          \A k \in 1..Len(ret.messages) :
              /\ ret.messages[k].content # <<>>
              /\ strip(ret.messages[k].content) = ret.messages[k].content
              /\ ret.messages[k].metadata = EmptyDict
    /\ (op = "parse_text" /\ SplitMarkers(content) # {}) =>
          Len(ret.messages) =
              Cardinality({p \in SplitMarkers(content) : ~Blank(BodyAfter(content, p))})

C20_Witness ==
    /\ op = "parse_text"
    /\ Cardinality(SplitMarkers(content)) = 2
    /\ \E p \in SplitMarkers(content) : Blank(BodyAfter(content, p))
    /\ Len(ret.messages) = 1

\* ------------------------------------------------------------------------
\* C21: the marker-narrative parser hands the original content to the
\* generic-narrative parser exactly when its own walk over the `## <Role>`
\* sections of the text after the metadata header emits no message (no
\* marker line, only blank bodies, or every marker inside the header);
\* otherwise it returns the messages of its own walk.
\* ------------------------------------------------------------------------
\* A line `## <Role>` of the marker-narrative grammar.
IsSectionLine(l) ==
    /\ Len(l) >= 2
    /\ l[1] = "##"
    /\ LET lp == SkipWs(l, 2) IN
       /\ lp <= Len(l)
       /\ LowerAtom(l[lp]) \in SectionLabels
       /\ SkipWs(l, lp + 1) > Len(l)

HasSectionLine(c) == \E k \in 1..Len(Lines(c)) : IsSectionLine(Lines(c)[k])

\* The messages of lines 299-311.
SectionWalk(c) ==
    Pairs(SectionSplit(strip(From(c, HeaderEnd(c))), 1, 1, <<>>), 1, TRUE, <<>>)

\* The claim as stated: the fallback is taken when and only when no marker
\* line exists.
C21_Original ==
    op = "parse_nanobot" =>
        ret = Outcome(IF HasSectionLine(content)
                      THEN Return(SectionWalk(content))
                      ELSE parse_text(content))

C21_Amended ==
    op = "parse_nanobot" =>
        /\ ret = Outcome(IF SectionWalk(content) = <<>>
                         THEN parse_text(content)
                         ELSE Return(SectionWalk(content)))
        /\ ~HasSectionLine(content) =>
              SectionWalk(content) = <<>> /\ ret = Outcome(parse_text(content))

\* A marker line exists, the walk emits nothing, and the fallback finds a
\* message.
C21_Witness ==
    /\ op = "parse_nanobot"
    /\ HasSectionLine(content)
    /\ SectionWalk(content) = <<>>
    /\ ret.messages # <<>>

\* ------------------------------------------------------------------------
\* C25: when parse_jsonl raises for a malformed line, the line number of
\* the error is the 1-based position of that line in the content given to
\* the parser, blank lines counted, leading blank lines included.
\* ------------------------------------------------------------------------
\* The lines of the content that are neither blank nor valid JSON.
MalformedLines(c) ==
    {k \in 1..Len(Lines(c)) : ~Blank(Lines(c)[k]) /\ ~IsJson(strip(Lines(c)[k]))}

FirstMalformedLine(c) ==
    CHOOSE k \in MalformedLines(c) : \A j \in MalformedLines(c) : k <= j

RaisedForLine ==
    /\ op = "parse_jsonl"
    /\ ret.exc = "ParseError"
    /\ ret.text = "Invalid JSON on line"

C25_PhysicalLineNumber ==
    RaisedForLine =>
        /\ MalformedLines(content) # {}
        /\ ret.num = FirstMalformedLine(content)

\* ------------------------------------------------------------------------
\* C26: the header stripped by the marker-narrative parser reaches to the
\* end of the last metadata line, wherever it stands; when a section after
\* that line yields a message, the messages are those of the sections
\* after the line, in order, and neither an earlier section nor the
\* metadata line appears in a message.
\* ------------------------------------------------------------------------
\* A line `<key>: ...` or `<key>= ...` with key session_id, agent, model or
\* timestamp.
IsMetaLine(l) ==
    /\ Len(l) >= 2
    /\ l[1] \in MetaKeys
    /\ SkipWs(l, 2) <= Len(l)
    /\ l[SkipWs(l, 2)] \in {":", "="}

MetaLines(c) == {k \in 1..Len(Lines(c)) : IsMetaLine(Lines(c)[k])}

LastMetaLine(c) == CHOOSE k \in MetaLines(c) : \A j \in MetaLines(c) : j <= k

\* The text after the last metadata line.
AfterHeader(c) ==
    LET ls == Lines(c) IN join(<<"\n">>, SubSeq(ls, LastMetaLine(c) + 1, Len(ls)))

\* The sections that stand before the last metadata line and have a body.
SectionsBeforeHeader(c) ==
    {k \in 1..(LastMetaLine(c) - 1) :
        /\ IsSectionLine(Lines(c)[k])
        /\ k + 1 < LastMetaLine(c)
        /\ ~Blank(Lines(c)[k + 1])
        /\ ~IsSectionLine(Lines(c)[k + 1])}

HeaderCase ==
    /\ op = "parse_nanobot"
    /\ MetaLines(content) # {}
    /\ SectionWalk(AfterHeader(content)) # <<>>

C26_HeaderToLastMetaLine ==
    HeaderCase =>
        /\ ret = Outcome(Return(SectionWalk(AfterHeader(content))))
        /\ Len(ret.messages) <=
              Cardinality({k \in (LastMetaLine(content) + 1)..Len(Lines(content)) :
                              IsSectionLine(Lines(content)[k])})
        /\ \A k \in 1..Len(ret.messages) :
              /\ ~Contains(ret.messages[k].content, Lines(content)[LastMetaLine(content)])
              /\ \A j \in SectionsBeforeHeader(content) :
                    ~Contains(ret.messages[k].content, Lines(content)[j + 1])

\* A section with a body before the metadata line, one after it.
C26_Witness ==
    /\ HeaderCase
    /\ SectionsBeforeHeader(content) # {}
    /\ Len(ret.messages) = 1

\* ------------------------------------------------------------------------
\* C27: parse_json emits, for an element whose content is a list, the
\* newline-join in list order of the text of every part tagged type=text
\* and of every bare string, other parts ignored; any other content that
\* is not a string is stringified; the metadata is exactly the fields of
\* the element other than role and content, values unchanged.
\* ------------------------------------------------------------------------
TextualPart(p) ==
    \/ p.t = "str"
    \/ p.t = "dict" /\ "type" \in DOMAIN p.v /\ p.v["type"] = JStr(<<"text">>)

\* The text of a textual part: the string itself, or the text field of the
\* mapping (empty when the field is missing).
PartText(p) ==
    IF p.t = "str" THEN p.v
    ELSE IF "text" \in DOMAIN p.v THEN p.v["text"].v
    ELSE <<>>

ListedTexts(parts) ==
    LET sel == SelectSeq(parts, TextualPart) IN
    [k \in 1..Len(sel) |-> PartText(sel[k])]

\* The content the claim gives to an element.
ClaimedContent(x) ==
    LET c == Get(x.v, "content", JStr(<<>>)) IN
    IF c.t = "list" THEN join(<<"\n">>, ListedTexts(c.v))
    ELSE IF c.t = "str" THEN c.v
    ELSE PyStr(c)

ArrayOfMappings(c) ==
    /\ IsJsonArrayText(strip(c))
    /\ \A k \in 1..Len(ArrayItems(strip(c))) : ArrayItems(strip(c))[k].t = "dict"

C27_ContentParts ==
    (op = "parse_json" /\ ArrayOfMappings(content)) =>
        LET items == ArrayItems(strip(content)) IN
        /\ ret.exc = "none"
        /\ Len(ret.messages) = Len(items)
        /\ \A k \in 1..Len(items) :
              /\ ret.messages[k].content = ClaimedContent(items[k])
              /\ ret.messages[k].metadata = Metadata(items[k].v)

\* ------------------------------------------------------------------------
\* C28: parse_session raises 'No messages found' only for content tagged
\* marker-narrative or generic-narrative.  For content tagged
\* structured-array parse_json returns at least 1 message or raises for an
\* element that is not a mapping (never 'Invalid JSON' or 'not an array');
\* for content tagged line-delimited parse_jsonl returns at least 2
\* messages or raises for a malformed line.
\* ------------------------------------------------------------------------
NoMessagesFound ==
    /\ op = "parse_session"
    /\ ret.exc = "ParseError"
    /\ ret.text = "No messages found in session log"

StructuredCall == op \in {"parse_json", "parse_session"} /\ detect_format(content) = "json"

LineDelimitedCall == op \in {"parse_jsonl", "parse_session"} /\ detect_format(content) = "jsonl"

NoMessagesOnlyNarrative == NoMessagesFound => ret.fmt \in {"nanobot", "text"}

C28_NoMessagesOnlyNarrative ==
    /\ NoMessagesOnlyNarrative
    /\ StructuredCall =>
          \/ ret.exc = "none" /\ Len(ret.messages) >= 1
          \/ ret.exc = "ParseError" /\ ret.text = "Item is not a JSON object"
    /\ LineDelimitedCall =>
          \/ ret.exc = "none" /\ Len(ret.messages) >= 2
          \/ ret.exc = "ParseError" /\ ret.text = "Invalid JSON on line"

\* ------------------------------------------------------------------------
\* C29: no message emitted by the section walk of the marker-narrative
\* parser has content whose last line is the turn separator `---`, also
\* for a body that is only `---` or that ends with two `---` lines; a body
\* made of separators only yields no message.
\* ------------------------------------------------------------------------
LastLine(t) == Lines(t)[Len(Lines(t))]

SeparatorLine(l) == strip(l) = <<"---">>

\* The call returned the messages of the section walk, not of the fallback.
OwnWalkResult ==
    /\ op = "parse_nanobot"
    /\ SectionWalk(content) # <<>>

C29_NoTrailingSeparator ==
    OwnWalkResult =>
        \A k \in 1..Len(ret.messages) : ~SeparatorLine(LastLine(ret.messages[k].content))

\* ------------------------------------------------------------------------
\* C22: Session.stats() is a function of the message list alone:
\* total_messages is the number of messages, user_messages and
\* assistant_messages count the messages whose role is exactly user or
\* assistant, total_chars is the sum of the content lengths and
\* estimated_tokens is total_chars integer-divided by 4, so that
\* user + assistant <= total and 4 * tokens <= chars < 4 * tokens + 4;
\* the call leaves the Session as it was.
\* ------------------------------------------------------------------------
CountRole(msgs, r) == Cardinality({k \in 1..Len(msgs) : msgs[k].role = r})

\* Characters of the contents of the first n messages.
RECURSIVE CharsUpTo(_, _)
CharsUpTo(msgs, n) ==
    IF n = 0 THEN 0 ELSE CharsUpTo(msgs, n - 1) + StrLen(msgs[n].content)

C22_StatsPure ==
    op = "stats" =>
        /\ statistics.total_messages = Len(ret.messages)
        /\ statistics.user_messages = CountRole(ret.messages, <<"user">>)
        /\ statistics.assistant_messages = CountRole(ret.messages, <<"assistant">>)
        /\ statistics.total_chars = CharsUpTo(ret.messages, Len(ret.messages))
        /\ 4 * statistics.estimated_tokens <= statistics.total_chars
        /\ statistics.total_chars < 4 * statistics.estimated_tokens + 4
        /\ statistics.user_messages + statistics.assistant_messages
              <= statistics.total_messages
        /\ ret = parse_session(content, source)
        /\ statistics = stats(Session(ret.messages, "", ""))

\* A user and an assistant message whose characters are not a multiple of 4.
C22_Witness ==
    /\ op = "stats"
    /\ statistics.user_messages = 1
    /\ statistics.assistant_messages = 1
    /\ statistics.total_chars % 4 # 0
    /\ statistics.estimated_tokens > 0

\* ------------------------------------------------------------------------
\* C23: parse_file fails with FileNotFound for a path that does not exist,
\* with ParseError for a path that exists and is not a regular file, and
\* otherwise decodes the bytes as UTF-8 and, only when that fails, as
\* Latin-1 (decoding never fails) and returns parse_session of the decoded
\* text with the path as source label; an existing empty file fails with
\* ParseError.
\* ------------------------------------------------------------------------
\* Every C3 is followed by A9, every A9 follows a C3, and FF does not
\* occur.
ValidUtf8(b) ==
    \A i \in 1..Len(b) :
        /\ b[i] # "0xFF"
        /\ b[i] = "0xC3" => (i < Len(b) /\ b[i + 1] = "0xA9")
        /\ b[i] = "0xA9" => (i > 1 /\ b[i - 1] = "0xC3")

PlainAscii(b) == \A i \in 1..Len(b) : b[i] \notin HighBytes \cup {"\r"}

C23_ParseFile ==
    op = "parse_file" =>
        LET p == PathStr(filepath) IN
        /\ p \notin DOMAIN files => ret.exc = "FileNotFoundError"
        /\ (p \in DOMAIN files /\ files[p].kind # "file") =>
              ret.exc = "ParseError" /\ ret.text = "Not a file"
        /\ (p \in DOMAIN files /\ files[p].kind = "file") =>
              LET b == files[p].bytes IN
              /\ ret.exc \in {"none", "ParseError"}
              /\ ret.text # "Not a file"
              /\ ValidUtf8(b) =>
                    ret = parse_session(UniversalNewlines(decode_utf8(b).text), p)
              /\ ~ValidUtf8(b) =>
                    ret = parse_session(UniversalNewlines(decode_latin1(b)), p)
              /\ PlainAscii(b) => ret = parse_session(b, p)
              /\ ret.exc = "none" => ret.source = p
              /\ b = <<>> => ret.exc = "ParseError" /\ ret.text = "Empty session log"

\* A file that is not valid UTF-8, read as Latin-1 through a path that is
\* not in its normal form.
C23_Witness ==
    /\ op = "parse_file"
    /\ filepath = "./log.txt"
    /\ ret.exc = "none"
    /\ ret.source = "log.txt"
    /\ \E k \in 1..Len(ret.messages) :
          /\ Contains(ret.messages[k].content, <<"U+00C3", "U+00A9">>)
          /\ Contains(ret.messages[k].content, <<"U+00FF">>)

\* ------------------------------------------------------------------------
\* C24: parsing keeps no state across calls.  However the steps of the
\* parse_session calls of a batch interleave, each call ends with the
\* outcome it has when run alone, two calls with the same content and
\* source end with equal outcomes, and a step changes nothing but the
\* locals of the call that takes it.
\* ------------------------------------------------------------------------
Done(i) == calls[i].pc = "done"

OutcomeAsAlone ==
    \A i \in 1..Len(calls) :
        /\ calls[i].pc \in {"detected", "parsed"} =>
              calls[i].fmt = detect_format(calls[i].content)
        /\ calls[i].pc = "parsed" =>
              calls[i].result = Parser(detect_format(calls[i].content), calls[i].content)
        /\ Done(i) => calls[i].ret = parse_session(calls[i].content, calls[i].source)

SameInputSameOutcome ==
    \A i, j \in 1..Len(calls) :
        (/\ Done(i) /\ Done(j)
         /\ calls[i].content = calls[j].content
         /\ calls[i].source = calls[j].source) => calls[i].ret = calls[j].ret

\* A step belongs to one call: the other calls and the arguments of the
\* stepping call stay as they are.
OneCallMoves ==
    \E i \in 1..Len(calls) :
        /\ \A j \in 1..Len(calls) : j # i => calls'[j] = calls[j]
        /\ calls'[i].content = calls[i].content
        /\ calls'[i].source = calls[i].source

Ended(i) == saves[i].pc \in {"done", "failed"}

AllEnded == Len(saves) > 0 /\ \A i \in 1..Len(saves) : Ended(i)

TimesStored(i) ==
    Cardinality({k \in 1..Len(stored.records) : stored.records[k].id = i})

C30_NoLostRecord ==
    AllEnded =>
        /\ stored.kind = "list"
        /\ \A i \in 1..Len(saves) : saves[i].pc = "done" /\ TimesStored(i) = 1

====
